---- MODULE Spec2Model ----
(***************************************************************************)
(* Model of the two model-assembly scripts BASIC_model/VGG16.py and        *)
(* KAN_model/DenseNetKAN.py: the constructors of the two wrappers, the     *)
(* forward pass, and the diagnostics print_parameter_details,              *)
(* count_parameters and count_model_size.                                  *)
(*                                                                         *)
(* A parameter is a record                                                 *)
(*   [origin, name, numel, requires_grad, element_size]                    *)
(* where origin is the factory call that created the tensor.  A buffer is  *)
(* a record [nelement, element_size].  A model is the sequence of its      *)
(* named parameters (in named_parameters() order) and of its buffers.      *)
(***************************************************************************)
EXTENDS Integers, Sequences, FiniteSets, TLC

VARIABLES
    kind,             \* which wrapper is constructed: "VGG16", "DenseNetKAN", "any"
    args,             \* the constructor's arguments
    backbone,         \* shape of the network the torchvision factory returns
    pc,               \* position inside __init__
    params,           \* named_parameters() of the model
    buffers,          \* buffers() of the model
    modules,          \* submodule attributes registered on self
    weights,          \* weights argument handed to the torchvision factory
    classifier,       \* the backbone's final classifier slot
    hidden_dims,      \* local variable hidden_dims of DenseNetKAN.__init__
    kan_layer1,       \* keyword arguments self.kan_layer1 was built with
    kan_layer2,       \* keyword arguments self.kan_layer2 was built with
    error,            \* exception raised by __init__
    dpc,              \* position inside print_parameter_details
    idx,              \* loop index of print_parameter_details
    total_params,     \* local of print_parameter_details
    trainable_params, \* local of print_parameter_details
    report,           \* the three totals print_parameter_details printed last
    count_result,     \* last value returned by count_parameters
    size_result,      \* last value returned by count_model_size
    fwd               \* outcome of forward(x)

ctor_vars == <<kind, args, backbone, pc, params, buffers, modules, weights,
               classifier, hidden_dims, kan_layer1, kan_layer2, error>>
diag_vars == <<dpc, idx, total_params, trainable_params, report,
               count_result, size_result>>
vars == <<ctor_vars, diag_vars, fwd>>

\* Python's None, for the variables that otherwise hold a record.
None == [type |-> "None"]
\* hidden_dims=None (the sequences given as hidden_dims are non-empty).
NoHiddenDims == << >>
\* weights=None
NoWeights == "None"

(***************************************************************************)
(* Bounds of the model.                                                    *)
(***************************************************************************)
MaxClasses == 2         \* num_classes ranges over 1..MaxClasses
MaxBackboneParams == 2  \* feature-extractor parameters of a loaded backbone
MaxNumel == 2           \* element count of one parameter of an arbitrary model
MaxFeatures == 2        \* in_features of the backbone's final classifier
MaxModelParams == 2     \* parameters of an arbitrary model given to the diagnostics
MaxModelBuffers == 1    \* buffers of an arbitrary model given to the diagnostics
MaxBufferNumel == 1     \* element count of one buffer of an arbitrary model
OrigClasses == 3        \* out_features of the classifier the backbone ships with
OtherGrids == 3         \* a kan_num_grids other than the default
OtherOrder == 2         \* a kan_spline_order other than the default

(***************************************************************************)
(* Program constants.                                                      *)
(***************************************************************************)
DefaultNumGrids == 5
DefaultSplineOrder == 3
KanHidden == 256
Layer2Num == 5
Layer2K == 3
Float32Bytes == 4

SupportedVersions == {"121", "161", "169", "201"}

(***************************************************************************)
(* Pure helpers.                                                           *)
(***************************************************************************)
SeqsUpTo(S, n) == UNION {[1..k -> S] : k \in 0..n}

RECURSIVE Pow2(_)
Pow2(n) == IF n = 0 THEN 1 ELSE 2 * Pow2(n - 1)

\* One tensor registered as a parameter of a module.
Param(origin, module, name, numel, requires_grad) ==
    [origin |-> origin, module |-> module, name |-> name, numel |-> numel,
     requires_grad |-> requires_grad, element_size |-> Float32Bytes]

\* nn.Linear(in_features, out_features): a weight and a bias, both trainable.
Linear(module, in_features, out_features) ==
    << Param("Linear", module, "weight", in_features * out_features, TRUE),
       Param("Linear", module, "bias", out_features, TRUE) >>

\* The parameters of the network a torchvision factory returns: the feature
\* extractor's tensors, then the classifier's weight and bias.  A freshly
\* loaded network has every parameter trainable.
BackboneParams(origin, clsname, bb) ==
    [j \in 1..bb.nfeat |-> Param(origin, "features", j, j, TRUE)]
    \o << Param(origin, clsname, "weight", bb.in_features * OrigClasses, TRUE),
          Param(origin, clsname, "bias", OrigClasses, TRUE) >>

\* The buffers of a loaded DenseNet: the running statistics of its batch
\* normalisations (float32) and their step counters (int64).  VGG16 has none.
DenseNetBuffers(bb) ==
    [j \in 1..(2 * bb.nfeat) |->
        IF j % 2 = 1 THEN [nelement |-> (j + 1) \div 2, element_size |-> 4]
                     ELSE [nelement |-> 1, element_size |-> 8]]

\* for param in backbone.parameters(): param.requires_grad = False
FreezeSkipped(ps) == ps
FreezeParameters(ps) ==
    [j \in 1..Len(ps) |-> [ps[j] EXCEPT !.requires_grad = FALSE]]

\* Assigning a new module to a slot drops the old module's parameters from
\* named_parameters(); the new module's parameters take the slot's place.
WithoutModule(ps, module) == SelectSeq(ps, LAMBDA p : p.module # module)

\* self.vgg16.classifier[6] = nn.Linear(num_features, num_classes)
VGGHeadKeepsWidth(num_features, num_classes) ==
    Linear("classifier.6", num_features, OrigClasses)
VGGHead(num_features, num_classes) ==
    Linear("classifier.6", num_features, num_classes)

\* The keyword arguments of the two KANLayer(...) calls.
KanLayer1UsesHiddenDims(num_features, hd, a) ==
    [in_dim |-> num_features, out_dim |-> hd[1],
     num |-> a.kan_num_grids, k |-> a.kan_spline_order,
     sp_trainable |-> TRUE, sb_trainable |-> TRUE, device |-> "cpu"]
KanLayer1Args(num_features, hd, a) ==
    [in_dim |-> num_features, out_dim |-> KanHidden,
     num |-> a.kan_num_grids, k |-> a.kan_spline_order,
     sp_trainable |-> TRUE, sb_trainable |-> TRUE, device |-> "cpu"]

KanLayer2Args(a) ==
    [in_dim |-> KanHidden, out_dim |-> a.num_classes,
     num |-> Layer2Num, k |-> Layer2K,
     sp_trainable |-> TRUE, sb_trainable |-> TRUE, device |-> "cpu"]

\* The parameters a KANLayer registers: the spline coefficients and the two
\* learnable scales, the scales trainable according to their flags.
KANLayerParams(module, kw) ==
    << Param("KANLayer", module, "coef",
             kw.in_dim * kw.out_dim * (kw.num + kw.k), TRUE),
       Param("KANLayer", module, "scale_base",
             kw.in_dim * kw.out_dim, kw.sb_trainable),
       Param("KANLayer", module, "scale_sp",
             kw.in_dim * kw.out_dim, kw.sp_trainable) >>

\* raise ValueError(f"Unsupported DenseNet version: {densenet_version}")
UnsupportedVersionUnformatted(v) ==
    [type |-> "ValueError",
     message |-> "Unsupported DenseNet version: {densenet_version}"]
UnsupportedVersion(v) ==
    [type |-> "ValueError", message |-> "Unsupported DenseNet version: " \o v]

(***************************************************************************)
(* Inputs.                                                                 *)
(***************************************************************************)
BackboneShapes ==
    [nfeat : 1..MaxBackboneParams, in_features : 1..MaxFeatures]

VGG16Args ==
    [num_classes : 1..MaxClasses, pretrained : BOOLEAN, freeze_backbone : BOOLEAN]

DenseNetKANArgs ==
    [hidden_dims : {NoHiddenDims, <<512, 256>>, <<64>>},
     num_classes : 1..MaxClasses,
     pretrained : BOOLEAN,
     freeze_backbone : BOOLEAN,
     densenet_version : SupportedVersions \cup {"264"},
     kan_num_grids : {DefaultNumGrids, OtherGrids},
     kan_spline_order : {DefaultSplineOrder, OtherOrder}]

\* An arbitrary model handed to the diagnostics.
AnyParam(j) ==
    [origin : {"any"}, module : {"layer"}, name : {j}, numel : 1..MaxNumel,
     requires_grad : BOOLEAN, element_size : {4, 8}]

AnyParams ==
    UNION { { ps \in [1..n -> UNION {AnyParam(j) : j \in 1..n}] :
                \A j \in 1..n : ps[j].name = j } : n \in 0..MaxModelParams }

AnyBuffers ==
    SeqsUpTo([nelement : 1..MaxBufferNumel, element_size : {4, 8}], MaxModelBuffers)

DiagInit ==
    /\ dpc = "idle"
    /\ idx = 0
    /\ total_params = 0
    /\ trainable_params = 0
    /\ report = None
    /\ count_result = None
    /\ size_result = None

\* The state before a wrapper's __init__ has run.
Init ==
    /\ kind \in {"VGG16", "DenseNetKAN"}
    /\ args \in IF kind = "VGG16" THEN VGG16Args ELSE DenseNetKANArgs
    /\ backbone \in BackboneShapes
    /\ pc = "start"
    /\ params = << >>
    /\ buffers = << >>
    /\ modules = {}
    /\ weights = NoWeights
    /\ classifier = None
    /\ hidden_dims = NoHiddenDims
    /\ kan_layer1 = None
    /\ kan_layer2 = None
    /\ error = None
    /\ fwd = None
    /\ DiagInit

\* A constructed model of any shape, about to be given to the diagnostics.
InitAnyModel ==
    /\ kind = "any"
    /\ args = None
    /\ backbone = None
    /\ pc = "done"
    /\ params \in AnyParams
    /\ buffers \in AnyBuffers
    /\ modules = {}
    /\ weights = NoWeights
    /\ classifier = None
    /\ hidden_dims = NoHiddenDims
    /\ kan_layer1 = None
    /\ kan_layer2 = None
    /\ error = None
    /\ fwd = None
    /\ DiagInit

(***************************************************************************)
(* VGG16.__init__                                                          *)
(***************************************************************************)
\* self.vgg16 = models.vgg16(weights='DEFAULT' if pretrained else None)
VGG_Load ==
    /\ kind = "VGG16" /\ pc = "start"
    /\ weights' = IF args.pretrained THEN "DEFAULT" ELSE NoWeights
    /\ params' = BackboneParams("vgg16", "classifier.6", backbone)
    /\ buffers' = << >>
    /\ modules' = modules \cup {"vgg16"}
    /\ classifier' = [type |-> "Linear", in_features |-> backbone.in_features,
                      out_features |-> OrigClasses]
    /\ pc' = "loaded"
    /\ UNCHANGED <<kind, args, backbone, hidden_dims, kan_layer1, kan_layer2,
                   error, diag_vars, fwd>>

\* if freeze_backbone: for param in self.vgg16.parameters(): ...
VGG_Freeze ==
    /\ kind = "VGG16" /\ pc = "loaded"
    /\ params' = IF args.freeze_backbone THEN FreezeParameters(params) ELSE params
    /\ pc' = "frozen"
    /\ UNCHANGED <<kind, args, backbone, buffers, modules, weights, classifier,
                   hidden_dims, kan_layer1, kan_layer2, error, diag_vars, fwd>>

\* num_features = ...classifier[6].in_features; classifier[6] = nn.Linear(...)
VGG_ReplaceHead ==
    /\ kind = "VGG16" /\ pc = "frozen"
    /\ LET num_features == classifier.in_features
       IN /\ params' = WithoutModule(params, "classifier.6")
                         \o VGGHead(num_features, args.num_classes)
          /\ classifier' = [type |-> "Linear", in_features |-> num_features,
                            out_features |-> args.num_classes]
    /\ pc' = "done"
    /\ UNCHANGED <<kind, args, backbone, buffers, modules, weights,
                   hidden_dims, kan_layer1, kan_layer2, error, diag_vars, fwd>>

(***************************************************************************)
(* DenseNetKAN.__init__                                                    *)
(***************************************************************************)
\* The if/elif chain over densenet_version, ending in raise ValueError.
DN_Load ==
    /\ kind = "DenseNetKAN" /\ pc = "start"
    /\ IF args.densenet_version \in SupportedVersions
       THEN /\ weights' = IF args.densenet_version \in {"121", "161"}
                          THEN (IF ~args.pretrained THEN NoWeights ELSE "DEFAULT")
                          ELSE (IF args.pretrained THEN "pretrained" ELSE NoWeights)
            /\ params' = BackboneParams("densenet", "classifier", backbone)
            /\ buffers' = DenseNetBuffers(backbone)
            /\ modules' = modules \cup {"densenet"}
            /\ classifier' = [type |-> "Linear",
                              in_features |-> backbone.in_features,
                              out_features |-> OrigClasses]
            /\ pc' = "loaded"
            /\ UNCHANGED error
       ELSE /\ error' = UnsupportedVersion(args.densenet_version)
            /\ pc' = "raised"
            /\ UNCHANGED <<weights, params, buffers, modules, classifier>>
    /\ UNCHANGED <<kind, args, backbone, hidden_dims, kan_layer1, kan_layer2,
                   diag_vars, fwd>>

\* if freeze_backbone: for param in self.densenet.parameters(): ...
DN_Freeze ==
    /\ kind = "DenseNetKAN" /\ pc = "loaded"
    /\ params' = IF args.freeze_backbone THEN FreezeParameters(params) ELSE params
    /\ pc' = "frozen"
    /\ UNCHANGED <<kind, args, backbone, buffers, modules, weights, classifier,
                   hidden_dims, kan_layer1, kan_layer2, error, diag_vars, fwd>>

\* num_features = classifier.in_features; classifier = nn.Identity();
\* if hidden_dims is None: hidden_dims = [512, 256]
DN_StripClassifier ==
    /\ kind = "DenseNetKAN" /\ pc = "frozen"
    /\ classifier' = [type |-> "Identity", num_features |-> classifier.in_features]
    /\ params' = WithoutModule(params, "classifier")
    /\ hidden_dims' = IF args.hidden_dims = NoHiddenDims THEN <<512, 256>>
                      ELSE args.hidden_dims
    /\ pc' = "stripped"
    /\ UNCHANGED <<kind, args, backbone, buffers, modules, weights,
                   kan_layer1, kan_layer2, error, diag_vars, fwd>>

\* self.kan_layer1 = KANLayer(in_dim=num_features, out_dim=256, ...)
DN_KanLayer1 ==
    /\ kind = "DenseNetKAN" /\ pc = "stripped"
    /\ LET kw == KanLayer1Args(classifier.num_features, hidden_dims, args)
       IN /\ kan_layer1' = kw
          /\ params' = params \o KANLayerParams("kan_layer1", kw)
    /\ modules' = modules \cup {"kan_layer1"}
    /\ pc' = "layer1"
    /\ UNCHANGED <<kind, args, backbone, buffers, weights, classifier,
                   hidden_dims, kan_layer2, error, diag_vars, fwd>>

\* self.kan_layer2 = KANLayer(in_dim=256, out_dim=num_classes, num=5, k=3, ...)
DN_KanLayer2 ==
    /\ kind = "DenseNetKAN" /\ pc = "layer1"
    /\ LET kw == KanLayer2Args(args)
       IN /\ kan_layer2' = kw
          /\ params' = params \o KANLayerParams("kan_layer2", kw)
    /\ modules' = modules \cup {"kan_layer2"}
    /\ pc' = "done"
    /\ UNCHANGED <<kind, args, backbone, buffers, weights, classifier,
                   hidden_dims, kan_layer1, error, diag_vars, fwd>>

Construct ==
    \/ VGG_Load \/ VGG_Freeze \/ VGG_ReplaceHead
    \/ DN_Load \/ DN_Freeze \/ DN_StripClassifier \/ DN_KanLayer1 \/ DN_KanLayer2

(***************************************************************************)
(* forward                                                                 *)
(***************************************************************************)
\* nn.Module attribute lookup: a name that was never assigned is an error.
HasAttr(name) == name \in modules

\* VGG16.forward: return self.vgg16(x)
VGG_Forward ==
    /\ kind = "VGG16" /\ pc = "done" /\ fwd = None
    /\ fwd' = IF HasAttr("vgg16")
              THEN [status |-> "returned", steps |-> <<"vgg16">>,
                    out_len |-> classifier.out_features]
              ELSE [status |-> "raised", steps |-> << >>,
                    error |-> [type |-> "AttributeError", name |-> "vgg16"]]
    /\ UNCHANGED <<ctor_vars, diag_vars>>

\* DenseNetKAN.forward: x = self.convnext(x); x = x.view(x.size(0), -1);
\* x = self.kan_layer1(x)[0]; x = self.kan_layer2(x)[0]; return x
DN_Forward ==
    /\ kind = "DenseNetKAN" /\ pc = "done" /\ fwd = None
    /\ fwd' = IF HasAttr("convnext")
              THEN [status |-> "returned",
                    steps |-> <<"convnext", "view", "kan_layer1[0]", "kan_layer2[0]">>,
                    out_len |-> kan_layer2.out_dim]
              ELSE [status |-> "raised", steps |-> << >>,
                    error |-> [type |-> "AttributeError", name |-> "convnext"]]
    /\ UNCHANGED <<ctor_vars, diag_vars>>

Forward == VGG_Forward \/ DN_Forward

(***************************************************************************)
(* Diagnostics                                                             *)
(***************************************************************************)
\* The body of the loop of print_parameter_details for one named parameter.
LoopBodyCountsTrainableOnly(total, trainable, parameter) ==
    LET n == parameter.numel
    IN IF parameter.requires_grad
       THEN [total_params |-> total + n, trainable_params |-> trainable + n]
       ELSE [total_params |-> total, trainable_params |-> trainable]
LoopBody(total, trainable, parameter) ==
    LET n == parameter.numel
    IN [total_params |-> total + n,
        trainable_params |-> IF parameter.requires_grad THEN trainable + n
                             ELSE trainable]

\* total_params = 0; trainable_params = 0; the two header lines
PrintBeginKeepsTotals ==
    /\ pc = "done" /\ dpc = "idle"
    /\ idx' = 0
    /\ dpc' = "loop"
    /\ UNCHANGED <<ctor_vars, total_params, trainable_params, report,
                   count_result, size_result, fwd>>
PrintBegin ==
    /\ pc = "done" /\ dpc = "idle"
    /\ total_params' = 0
    /\ trainable_params' = 0
    /\ idx' = 0
    /\ dpc' = "loop"
    /\ UNCHANGED <<ctor_vars, report, count_result, size_result, fwd>>

\* for name, parameter in model.named_parameters(): ...
PrintStep ==
    /\ dpc = "loop" /\ idx < Len(params)
    /\ LET r == LoopBody(total_params, trainable_params, params[idx + 1])
       IN /\ total_params' = r.total_params
          /\ trainable_params' = r.trainable_params
    /\ idx' = idx + 1
    /\ UNCHANGED <<ctor_vars, dpc, report, count_result, size_result, fwd>>

\* The three closing lines: Total, Trainable, Non-trainable.
PrintEnd ==
    /\ dpc = "loop" /\ idx = Len(params)
    /\ report' = [total |-> total_params, trainable |-> trainable_params,
                  non_trainable |-> total_params - trainable_params]
    /\ dpc' = "idle"
    /\ UNCHANGED <<ctor_vars, idx, total_params, trainable_params,
                   count_result, size_result, fwd>>

\* sum(p.numel() for p in model.parameters() if p.requires_grad)
RECURSIVE count_parameters_all(_)
count_parameters_all(ps) ==
    IF ps = << >> THEN 0 ELSE Head(ps).numel + count_parameters_all(Tail(ps))
RECURSIVE count_parameters(_)
count_parameters(ps) ==
    IF ps = << >> THEN 0
    ELSE (IF Head(ps).requires_grad THEN Head(ps).numel ELSE 0)
         + count_parameters(Tail(ps))

CountParametersCall ==
    /\ pc = "done" /\ dpc = "idle"
    /\ count_result' = [value |-> count_parameters(params)]
    /\ UNCHANGED <<ctor_vars, dpc, idx, total_params, trainable_params,
                   report, size_result, fwd>>

\* A Python float whose value is m / 2^e, kept in lowest terms.  Every value
\* count_model_size produces is of this form.
RECURSIVE Normalise(_)
Normalise(x) ==
    IF x.m = 0 THEN [m |-> 0, e |-> 0]
    ELSE IF x.e > 0 /\ x.m % 2 = 0 THEN Normalise([m |-> x.m \div 2, e |-> x.e - 1])
    ELSE x

\* x / 1024
DivKiB(x) == Normalise([m |-> x.m, e |-> x.e + 10])

\* for t in tensors: size += t.nelement() * t.element_size()
RECURSIVE param_bytes(_)
param_bytes(ps) ==
    IF ps = << >> THEN 0
    ELSE Head(ps).numel * Head(ps).element_size + param_bytes(Tail(ps))

RECURSIVE buffer_bytes(_)
buffer_bytes(bs) ==
    IF bs = << >> THEN 0
    ELSE Head(bs).nelement * Head(bs).element_size + buffer_bytes(Tail(bs))

\* size_mb = (param_size + buffer_size) / 1024 / 1024
count_model_size_no_buffers(ps, bs) ==
    DivKiB(DivKiB([m |-> param_bytes(ps), e |-> 0]))
count_model_size(ps, bs) ==
    LET param_size == param_bytes(ps)
        buffer_size == buffer_bytes(bs)
    IN DivKiB(DivKiB([m |-> param_size + buffer_size, e |-> 0]))

CountModelSizeCall ==
    /\ pc = "done" /\ dpc = "idle"
    /\ size_result' = count_model_size(params, buffers)
    /\ UNCHANGED <<ctor_vars, dpc, idx, total_params, trainable_params,
                   report, count_result, fwd>>

Diagnostics ==
    \/ PrintBegin \/ PrintStep \/ PrintEnd
    \/ CountParametersCall \/ CountModelSizeCall

(***************************************************************************)
(* Specifications.                                                         *)
(***************************************************************************)
Next == Construct \/ Forward \/ Diagnostics

Spec == Init /\ [][Next]_vars

\* The diagnostics applied to an arbitrary model.
DiagSpec == InitAnyModel /\ [][Diagnostics]_vars

(***************************************************************************)
(* Vocabulary of the properties.                                           *)
(***************************************************************************)
Indices(ps) == 1..Len(ps)

FromBackbone(p) == p.origin \in {"vgg16", "densenet"}
InHead(p) == p.origin \in {"Linear", "KANLayer"}
HeadModules == IF kind = "VGG16" THEN {"classifier.6"}
               ELSE {"kan_layer1", "kan_layer2"}

\* Sum of numel over the parameters of ps whose requires_grad is in flags.
RECURSIVE NumelOver(_, _, _)
NumelOver(ps, js, flags) ==
    IF js = {} THEN 0
    ELSE LET j == CHOOSE x \in js : TRUE
         IN (IF ps[j].requires_grad \in flags THEN ps[j].numel ELSE 0)
            + NumelOver(ps, js \ {j}, flags)

TotalNumel(ps) == NumelOver(ps, Indices(ps), BOOLEAN)
TrainableNumel(ps) == NumelOver(ps, Indices(ps), {TRUE})
FrozenNumel(ps) == NumelOver(ps, Indices(ps), {FALSE})

\* Sum of element count times byte width over a sequence of tensors.
RECURSIVE BytesOver(_, _)
BytesOver(sizes, js) ==
    IF js = {} THEN 0
    ELSE LET j == CHOOSE x \in js : TRUE
         IN sizes[j] + BytesOver(sizes, js \ {j})

ParamBytes(ps) ==
    BytesOver([j \in Indices(ps) |-> ps[j].numel * ps[j].element_size], Indices(ps))
BufferBytes(bs) ==
    BytesOver([j \in Indices(bs) |-> bs[j].nelement * bs[j].element_size], Indices(bs))

\* 2^20 times the value of the float x, when that is an integer.
MiBExponent == 20
Scaled(x) == x.m * Pow2(MiBExponent - x.e)

\* The same tensors stored in a numeric type twice as wide.
Widen(ts) == [j \in Indices(ts) |-> [ts[j] EXCEPT !.element_size = 2 * @]]

\* The text sub occurs in the text s.
Contains(s, sub) ==
    \E a \in 1..Len(s) :
        /\ a + Len(sub) - 1 <= Len(s)
        /\ SubSeq(s, a, a + Len(sub) - 1) = sub

(***************************************************************************)
(* Properties.                                                             *)
(***************************************************************************)

C2_TotalsAddUp ==
    /\ dpc = "loop" =>
          LET seen == SubSeq(params, 1, idx)
          IN /\ total_params = TotalNumel(seen)
             /\ trainable_params = TrainableNumel(seen)
             /\ total_params - trainable_params = FrozenNumel(seen)
             /\ trainable_params + (total_params - trainable_params) = total_params
    /\ report # None =>
          /\ report.total = TotalNumel(params)
          /\ report.trainable = TrainableNumel(params)
          /\ report.non_trainable = FrozenNumel(params)
          /\ report.trainable + report.non_trainable = report.total

C2_Witness ==
    /\ report # None
    /\ report.trainable > 0
    /\ report.non_trainable > 0

\* C3: the value count_parameters returns equals the "Trainable parameters"
\* total print_parameter_details reports for the same model.
C3_CountEqualsReportedTrainable ==
    (report # None /\ count_result # None) =>
        count_result.value = report.trainable

C3_Witness ==
    /\ report # None /\ count_result # None
    /\ count_result.value > 0
    /\ report.non_trainable > 0

\* C4: count_model_size returns (bytes of the parameters + bytes of the
\* buffers) / 1024^2; with no buffers and one byte width w for every parameter
\* that is (total element count * w) / 1024^2; and the same model with every
\* byte width doubled gives exactly twice the value.
C4_ModelSize ==
    size_result # None =>
        /\ size_result.e <= MiBExponent
        /\ Scaled(size_result) = ParamBytes(params) + BufferBytes(buffers)
        /\ \A w \in {4, 8} :
              (buffers = << >> /\ \A j \in Indices(params) : params[j].element_size = w)
                  => Scaled(size_result) = TotalNumel(params) * w
        /\ LET wide == count_model_size(Widen(params), Widen(buffers))
           IN /\ wide.e <= MiBExponent
              /\ Scaled(wide) = 2 * Scaled(size_result)

C4_Witness ==
    /\ size_result # None
    /\ Len(params) >= 2
    /\ buffers # << >>
    /\ \E j, l \in Indices(params) : params[j].element_size # params[l].element_size

\* C5: DenseNetKAN with a densenet_version outside {'121','161','169','201'}
\* raises a ValueError whose message contains the selector, before a backbone
\* is loaded, a parameter frozen or a KAN layer created; no model results.
C5_UnsupportedVersionFailsFast ==
    (kind = "DenseNetKAN" /\ args.densenet_version \notin SupportedVersions
        /\ pc # "start") =>
        /\ pc = "raised"
        /\ error.type = "ValueError"
        /\ Contains(error.message, args.densenet_version)
        /\ modules = {}
        /\ params = << >> /\ buffers = << >>
        /\ weights = NoWeights
        /\ classifier = None /\ kan_layer1 = None /\ kan_layer2 = None
        /\ fwd = None /\ report = None /\ count_result = None /\ size_result = None

C5_Witness ==
    /\ kind = "DenseNetKAN" /\ pc = "raised"
    /\ args.densenet_version = "264"

\* C6: VGG16 with freeze_backbone=True has at classifier[6] a linear layer
\* with num_classes outputs and the original input width, no trainable
\* parameter outside that layer, and count_parameters(model) equal to
\* in_features * num_classes + num_classes.
C6_VGGHeadOnlyTrainable ==
    (kind = "VGG16" /\ pc = "done" /\ args.freeze_backbone) =>
        LET nin == backbone.in_features
            nout == args.num_classes
            n == Len(params)
        IN /\ classifier.type = "Linear"
           /\ classifier.in_features = nin
           /\ classifier.out_features = nout
           /\ n >= 2
           /\ params[n - 1].module = "classifier.6" /\ params[n - 1].name = "weight"
           /\ params[n - 1].numel = nin * nout
           /\ params[n].module = "classifier.6" /\ params[n].name = "bias"
           /\ params[n].numel = nout
           /\ \A j \in Indices(params) :
                 params[j].module # "classifier.6" => ~params[j].requires_grad
           /\ TrainableNumel(params) = nin * nout + nout
           /\ count_result # None => count_result.value = nin * nout + nout

C6_Witness ==
    /\ kind = "VGG16" /\ pc = "done" /\ args.freeze_backbone
    /\ ~args.pretrained
    /\ args.num_classes = MaxClasses
    /\ count_result # None

\* C7: for every supported version, every num_classes and every hidden_dims, a
\* constructed DenseNetKAN has an identity classifier, kan_layer1 from the
\* backbone classifier's in_features to 256 and kan_layer2 from 256 to
\* num_classes.
C7_KanLayerDimensions ==
    (kind = "DenseNetKAN" /\ pc = "done") =>
        /\ args.densenet_version \in SupportedVersions
        /\ classifier.type = "Identity"
        /\ kan_layer1.in_dim = backbone.in_features
        /\ kan_layer1.out_dim = 256
        /\ kan_layer2.in_dim = 256
        /\ kan_layer2.out_dim = args.num_classes
        /\ kan_layer1.out_dim = kan_layer2.in_dim

C7_Witness ==
    /\ kind = "DenseNetKAN" /\ pc = "done"
    /\ args.hidden_dims = <<64>>
    /\ args.num_classes = MaxClasses

\* C8: forward on a constructed DenseNetKAN runs backbone, flatten,
\* kan_layer1[0], kan_layer2[0] in this order and returns num_classes scores
\* per sample, without raising.
C8_ForwardReturnsScores ==
    (kind = "DenseNetKAN" /\ fwd # None) =>
        /\ fwd.status = "returned"
        /\ Len(fwd.steps) = 4
        /\ fwd.steps[3] = "kan_layer1[0]" /\ fwd.steps[4] = "kan_layer2[0]"
        /\ fwd.out_len = args.num_classes

\* C9: the diagnostics are pure queries: no step of them changes the model's
\* parameters or buffers, and a value one of them has produced is produced
\* again by every later call.
C9_DiagnosticsArePure ==
    [][ /\ params' = params
        /\ buffers' = buffers
        /\ report # None => report' = report
        /\ count_result # None => count_result' = count_result
        /\ size_result # None => size_result' = size_result ]_vars

C9_Witness ==
    /\ params # << >>
    /\ report # None /\ count_result # None /\ size_result # None
    /\ dpc = "loop" /\ idx = Len(params)

\* C10: kan_layer1 and kan_layer2 are each constructed with
\* num = kan_num_grids and k = kan_spline_order.
C10_BothLayersUseGivenHyperparameters ==
    (kind = "DenseNetKAN" /\ pc = "done") =>
        /\ kan_layer1.num = args.kan_num_grids
        /\ kan_layer1.k = args.kan_spline_order
        /\ kan_layer2.num = args.kan_num_grids
        /\ kan_layer2.k = args.kan_spline_order

====
